---------------------------- MODULE Spec2Model ----------------------------
(***************************************************************************)
(* Quant-finance-projects: three straight-line analysis scripts.           *)
(*                                                                         *)
(*   01-trading-strategy-rsi-ema/rsi_ema_strategy.py     (SpecStrategy)    *)
(*   02-stock-screener-rsi-ema/stock_screener.py         (SpecScreener)    *)
(*   03-portfolio-risk-dashboard/portfolio_dashboard.py  (SpecPortfolio)   *)
(*                                                                         *)
(* Each script is a state machine whose program counter walks the script   *)
(* top to bottom.  What yfinance and pandas_ta return is an input: it is   *)
(* drawn from small sets.  Prices are integers; a missing value (NaN) is   *)
(* the integer NaN, which no price, indicator or return can take.          *)
(***************************************************************************)
EXTENDS Integers, Sequences, FiniteSets

\* ------------------------------------------------------------------ bounds
\* Longest frame the loader of script 1 returns.
MaxBars == 4
\* Number of calendar days the loader of script 3 can return bars for.
MaxDays == 3
\* Longest frame the loader of script 2 returns.
MaxRows == 2

\* ------------------------------------------------------- shared data model
\* np.nan / a missing cell of a DataFrame.
NaN == -1000
\* Python's None (entry_price, entry_date while flat).
None == -1

\* Close prices the loader can report (besides NaN).
ClosePrices == {10, 20}

\* stock[[...]].dropna(): the rows whose Close is present.
DropNaClose(frame) == SelectSeq(frame, LAMBDA r : r.Close # NaN)

\* ------------------------------------------------------------- script 1
\* pc: the statement the script is at.  raw: what yf.download returned.
\* opened: the number of times the tracker went from flat to in-trade.
VARIABLES pc, raw, stock, i, in_trade, entry_price, entry_date, trades_list,
          report, opened
\* ------------------------------------------------------------- script 2
\* log2: the per-ticker skip messages printed so far.
VARIABLES pc2, idx2, data, results, log2, candidates
\* ------------------------------------------------------------- script 3
\* log3: the per-ticker skip messages printed so far.  divided: the tickers
\* for which the Sharpe division (line 124) was executed.
VARIABLES pc3, idx3, prices, log3, returns_df, col3, summary_rows, divided

vars1 == <<pc, raw, stock, i, in_trade, entry_price, entry_date, trades_list,
           report, opened>>
vars2 == <<pc2, idx2, data, results, log2, candidates>>
vars3 == <<pc3, idx3, prices, log3, returns_df, col3, summary_rows, divided>>
vars == <<vars1, vars2, vars3>>

\* The frames yf.download can return: n bars on the dates 1..n, strictly
\* ordered, each with a close price or a missing one.
LoaderFrames ==
    UNION { { [d \in 1..n |-> [Date |-> d, Close |-> c[d]]] :
              c \in [1..n -> ClosePrices \cup {NaN}] } : n \in 0..MaxBars }

\* What ta.rsi / ta.ema can report for one bar: still in warm-up (all NaN),
\* RSI and EMA_20 ready but EMA_50 still in warm-up, or ready.  The ready rows
\* straddle both thresholds of the buy rule.
IndicatorOutcomes ==
    { [RSI |-> NaN, EMA_20 |-> NaN, EMA_50 |-> NaN],
      [RSI |-> 60,  EMA_20 |-> 11,  EMA_50 |-> NaN],
      [RSI |-> 60,  EMA_20 |-> 11,  EMA_50 |-> 10],
      [RSI |-> 55,  EMA_20 |-> 11,  EMA_50 |-> 10],
      [RSI |-> 60,  EMA_20 |-> 10,  EMA_50 |-> 10] }

\* RSI level of the buy rule.
RsiBuyLevel == 55

\* stock.dropna(subset=["RSI", "EMA_20", "EMA_50"])
IndicatorsReady(r) == r.RSI # NaN /\ r.EMA_20 # NaN /\ r.EMA_50 # NaN

\* (EMA_20 > EMA_50) & (RSI > 55)
BuySignal(r) == (r.EMA_20 > r.EMA_50) /\ (r.RSI > RsiBuyLevel)

\* Series.shift(1) of a boolean column: an object column whose first cell is
\* NaN and whose cell k is the cell k-1 of the input.
ObjOf(b) == IF b THEN "True" ELSE "False"
\* A shift that fills the first cell with False (shift(1, fill_value=False)).
ShiftFillFalse(col) == [k \in 1..Len(col) |-> IF k = 1 THEN "False" ELSE ObjOf(col[k-1])]
Shift(col) == [k \in 1..Len(col) |-> IF k = 1 THEN "NaN" ELSE ObjOf(col[k-1])]

\* An entry flag that lost its second conjunct.
EntryFlagNoCurrent(prev, cur) == (prev = "False")
\* (BUYSIGNAL.shift(1) == False) & (BUYSIGNAL == True)
EntryFlag(prev, cur) == (prev = "False") /\ (cur = TRUE)
\* (BUYSIGNAL.shift(1) == True) & (BUYSIGNAL == False)
ExitFlag(prev, cur) == (prev = "True") /\ (cur = FALSE)

\* The frame with the three signal columns added.
WithSignals(frame) ==
    LET buy  == [k \in 1..Len(frame) |-> BuySignal(frame[k])]
        prev == Shift(buy)
    IN  [k \in 1..Len(frame) |->
            [Date |-> frame[k].Date, Close |-> frame[k].Close,
             RSI |-> frame[k].RSI, EMA_20 |-> frame[k].EMA_20,
             EMA_50 |-> frame[k].EMA_50,
             BUYSIGNAL |-> buy[k],
             ENTRY |-> EntryFlag(prev[k], buy[k]),
             EXIT  |-> ExitFlag(prev[k], buy[k])]]

\* (exit_price - entry_price) / entry_price * 100.  Closes are 10 or 20, so
\* the quotient is an integer (100, -50 or 0) and \div is exact.
TradeReturn(entryPrice, exitPrice) == ((exitPrice - entryPrice) * 100) \div entryPrice

\* A trade record with the two dates swapped.
MakeTradeSwapped(entryDate, exitDate, entryPrice, exitPrice) ==
    [EntryDate |-> exitDate, ExitDate |-> entryDate,
     EntryPrice |-> entryPrice, ExitPrice |-> exitPrice,
     Return |-> TradeReturn(entryPrice, exitPrice)]

\* The dict appended to trades_list.
MakeTrade(entryDate, exitDate, entryPrice, exitPrice) ==
    [EntryDate |-> entryDate, ExitDate |-> exitDate,
     EntryPrice |-> entryPrice, ExitPrice |-> exitPrice,
     Return |-> TradeReturn(entryPrice, exitPrice)]

\* stock.index[-1] and stock["Close"].iloc[-1]
LastDate(frame) == frame[Len(frame)].Date
\* The first close instead of the last (iloc[0]).
FirstClose(frame) == frame[1].Close
LastClose(frame) == frame[Len(frame)].Close

RECURSIVE SumReturns(_)
\* trades["RETURN%"].sum()
SumReturns(ts) == IF ts = <<>> THEN 0 ELSE Head(ts).Return + SumReturns(Tail(ts))

\* Nothing has been reported yet.
NoReport == [branch |-> "none", stats |-> <<>>]

Init1 ==
    /\ pc = "download"
    /\ raw = <<>>
    /\ stock = <<>>
    /\ i = 0
    /\ in_trade = FALSE
    /\ entry_price = None
    /\ entry_date = None
    /\ trades_list = <<>>
    /\ report = NoReport
    /\ opened = 0

\* Lines 18-28: download, abort on an empty frame, keep the complete rows.
Download ==
    /\ UNCHANGED <<vars2, vars3>>
    /\ pc = "download"
    /\ \E frame \in LoaderFrames :
          /\ raw' = frame
          /\ IF frame = <<>>
             THEN /\ pc' = "aborted"
                  /\ stock' = stock
             ELSE /\ pc' = "indicators"
                  /\ stock' = DropNaClose(frame)
    /\ UNCHANGED <<i, in_trade, entry_price, entry_date, trades_list, report, opened>>

\* The second emptiness check left out.
NeverAbortAfterIndicators(frame) == FALSE
\* Whether the run aborts after the indicator rows are dropped (line 40).
AbortAfterIndicators(frame) == frame = <<>>

\* Lines 33-41: add the indicator columns, drop the warm-up rows, abort when
\* nothing is left.
Indicators ==
    /\ UNCHANGED <<vars2, vars3>>
    /\ pc = "indicators"
    /\ \E ind \in [1..Len(stock) -> IndicatorOutcomes] :
          LET full == [k \in 1..Len(stock) |->
                          [Date |-> stock[k].Date, Close |-> stock[k].Close,
                           RSI |-> ind[k].RSI, EMA_20 |-> ind[k].EMA_20,
                           EMA_50 |-> ind[k].EMA_50]]
              kept == SelectSeq(full, IndicatorsReady)
          IN  /\ stock' = kept
              /\ pc' = IF AbortAfterIndicators(kept) THEN "aborted" ELSE "signals"
    /\ UNCHANGED <<raw, i, in_trade, entry_price, entry_date, trades_list, report, opened>>

\* Lines 49-65: the signal columns, then the tracker's initial state.
Signals ==
    /\ UNCHANGED <<vars2, vars3>>
    /\ pc = "signals"
    /\ stock' = WithSignals(stock)
    /\ trades_list' = <<>>
    /\ in_trade' = FALSE
    /\ entry_price' = None
    /\ entry_date' = None
    /\ i' = 1
    /\ pc' = "loop"
    /\ UNCHANGED <<raw, report, opened>>

\* Lines 68-72: the bar opens a trade.
OpenTrade ==
    /\ UNCHANGED <<vars2, vars3>>
    /\ pc = "loop" /\ i <= Len(stock)
    /\ (~in_trade) /\ stock[i].ENTRY
    /\ in_trade' = TRUE
    /\ entry_date' = stock[i].Date
    /\ entry_price' = stock[i].Close
    /\ opened' = opened + 1
    /\ i' = i + 1
    /\ UNCHANGED <<pc, raw, stock, trades_list, report>>

\* The exit date taken from the end of the frame, as the forced exit does.
LoopExitDateLast(frame, k) == frame[Len(frame)].Date
\* The exit date the loop records for the bar at position k (line 76).
LoopExitDate(frame, k) == frame[k].Date

\* Lines 74-90: the bar closes the open trade.
CloseTrade ==
    /\ UNCHANGED <<vars2, vars3>>
    /\ pc = "loop" /\ i <= Len(stock)
    /\ ~((~in_trade) /\ stock[i].ENTRY)
    /\ in_trade /\ stock[i].EXIT
    /\ trades_list' = Append(trades_list,
                             MakeTrade(entry_date, LoopExitDate(stock, i),
                                       entry_price, stock[i].Close))
    /\ in_trade' = FALSE
    /\ entry_price' = None
    /\ entry_date' = None
    /\ i' = i + 1
    /\ UNCHANGED <<pc, raw, stock, report, opened>>

\* Neither branch of the loop body applies.
SkipBar ==
    /\ UNCHANGED <<vars2, vars3>>
    /\ pc = "loop" /\ i <= Len(stock)
    /\ ~((~in_trade) /\ stock[i].ENTRY)
    /\ ~(in_trade /\ stock[i].EXIT)
    /\ i' = i + 1
    /\ UNCHANGED <<pc, raw, stock, in_trade, entry_price, entry_date, trades_list,
                   report, opened>>

\* The for loop is exhausted.
LoopEnd ==
    /\ UNCHANGED <<vars2, vars3>>
    /\ pc = "loop" /\ i > Len(stock)
    /\ pc' = "forced"
    /\ UNCHANGED <<raw, stock, i, in_trade, entry_price, entry_date, trades_list,
                   report, opened>>

\* The forced exit left out.
ForcedExitNever == FALSE
\* The condition of line 93.
ForcedExitNeeded == in_trade

\* Lines 93-103: a trade still open is closed at the last close.
ForcedExit ==
    /\ UNCHANGED <<vars2, vars3>>
    /\ pc = "forced"
    /\ ForcedExitNeeded
    /\ trades_list' = Append(trades_list,
                             MakeTrade(entry_date, LastDate(stock),
                                       entry_price, LastClose(stock)))
    /\ pc' = "report"
    /\ UNCHANGED <<raw, stock, i, in_trade, entry_price, entry_date, report, opened>>

NoForcedExit ==
    /\ UNCHANGED <<vars2, vars3>>
    /\ pc = "forced"
    /\ ~ForcedExitNeeded
    /\ pc' = "report"
    /\ UNCHANGED <<raw, stock, i, in_trade, entry_price, entry_date, trades_list,
                   report, opened>>

\* Lines 105-117: "No trades were taken" or the count, the mean (the sum over
\* the count) and the sum of the returns.
Report ==
    /\ UNCHANGED <<vars2, vars3>>
    /\ pc = "report"
    /\ report' = IF trades_list = <<>>
                 THEN [branch |-> "no_trades", stats |-> <<>>]
                 ELSE [branch |-> "stats",
                       stats |-> <<Len(trades_list),
                                   <<SumReturns(trades_list), Len(trades_list)>>,
                                   SumReturns(trades_list)>>]
    /\ pc' = "done"
    /\ UNCHANGED <<raw, stock, i, in_trade, entry_price, entry_date, trades_list, opened>>

Next1 ==
    \/ Download
    \/ Indicators
    \/ Signals
    \/ OpenTrade
    \/ CloseTrade
    \/ SkipBar
    \/ LoopEnd
    \/ ForcedExit
    \/ NoForcedExit
    \/ Report


\* ------------------------------------------------------------- script 2
\* The head of the TICKERS list of the screener.
TICKERS == <<"NIFTYBEES.NS", "GOLDBEES.NS", "RELIANCE.NS">>

\* Bounds of the RSI band of the screen.
RsiLow == 50
RsiHigh == 70

\* The latest bar with its indicators, as the screener sees it after lines
\* 41-46: a bar whose indicators are ready, or a warm-up bar (EMA_50 missing).
\* The ready bars straddle each of the comparisons of the screen.  All values
\* are whole numbers, which round(x, 2) leaves as they are.
ScreenBars ==
    [Close : {100, 105}, EMA_20 : {100}, EMA_50 : {95, 100},
     RSI_14 : {50, 60, 70, 75}]
      \cup {[Close |-> 105, EMA_20 |-> 100, EMA_50 |-> NaN, RSI_14 |-> 60]}

\* The older bars of a frame: a warm-up bar, a bar that passes the screen and
\* a bar that fails each of its three conditions.
ScreenHistoryBars ==
    { [Close |-> 105, EMA_20 |-> 100, EMA_50 |-> NaN, RSI_14 |-> 60],
      [Close |-> 105, EMA_20 |-> 100, EMA_50 |-> 95,  RSI_14 |-> 60],
      [Close |-> 100, EMA_20 |-> 100, EMA_50 |-> 100, RSI_14 |-> 75] }

\* The frames yf.download can return to the screener: no bar, or up to
\* MaxRows bars, the older ones first.
ScreenFrames ==
    {<<>>} \cup
    UNION { { Append(h, b) : h \in [1..(n - 1) -> ScreenHistoryBars], b \in ScreenBars } :
            n \in 1..MaxRows }

\* data.dropna() of line 48.
ScreenReady(r) == r.Close # NaN /\ r.EMA_20 # NaN /\ r.EMA_50 # NaN /\ r.RSI_14 # NaN

\* data.iloc[-1]
LastRow(frame) == frame[Len(frame)]

\* ema20 > ema50
Uptrend(ema20, ema50) == ema20 > ema50
\* close > ema20
PriceAboveEma20(close, ema20) == close > ema20
\* An RSI band that is closed at the top.
RsiOkClosedAbove(rsi14) == (rsi14 > RsiLow) /\ (rsi14 <= RsiHigh)
\* (rsi14 > 50) & (rsi14 < 70)
RsiOk(rsi14) == (rsi14 > RsiLow) /\ (rsi14 < RsiHigh)

\* The dict appended to results (lines 52-76) for the row `last`.
ScreenRow(ticker, last) ==
    LET uptrend == Uptrend(last.EMA_20, last.EMA_50)
        price_above_ema20 == PriceAboveEma20(last.Close, last.EMA_20)
        rsi_ok == RsiOk(last.RSI_14)
    IN  [Ticker |-> ticker,
         Close |-> last.Close, EMA_20 |-> last.EMA_20,
         EMA_50 |-> last.EMA_50, RSI_14 |-> last.RSI_14,
         Uptrend |-> uptrend,
         PriceAboveEma20 |-> price_above_ema20,
         RsiBetween |-> rsi_ok,
         PASS_SCREEN |-> (uptrend /\ price_above_ema20 /\ rsi_ok)]

RECURSIVE InsertByRsi(_, _)
\* `row` put into a list sorted by RSI_14, after the rows that are not larger.
InsertByRsi(row, sorted) ==
    IF sorted = <<>> THEN <<row>>
    ELSE IF Head(sorted).RSI_14 <= row.RSI_14
         THEN <<Head(sorted)>> \o InsertByRsi(row, Tail(sorted))
         ELSE <<row>> \o sorted

RECURSIVE SortByRsi(_)
\* candidates.sort_values(by="RSI_14")
SortByRsi(rows) ==
    IF rows = <<>> THEN <<>>
    ELSE InsertByRsi(rows[Len(rows)], SortByRsi(SubSeq(rows, 1, Len(rows) - 1)))

Init2 ==
    /\ pc2 = "loop"
    /\ idx2 = 1
    /\ data = <<>>
    /\ results = <<>>
    /\ log2 = <<>>
    /\ candidates = <<>>

\* Lines 25-31 raise: the except clause prints the error and goes on.
ScreenDownloadError ==
    /\ UNCHANGED <<vars1, vars3>>
    /\ pc2 = "loop" /\ idx2 <= Len(TICKERS)
    /\ log2' = Append(log2, [Ticker |-> TICKERS[idx2], what |-> "error"])
    /\ idx2' = idx2 + 1
    /\ UNCHANGED <<pc2, data, results, candidates>>

\* Lines 33-35: the loader returned an empty frame.
ScreenNoData ==
    /\ UNCHANGED <<vars1, vars3>>
    /\ pc2 = "loop" /\ idx2 <= Len(TICKERS)
    /\ data' = <<>>
    /\ log2' = Append(log2, [Ticker |-> TICKERS[idx2], what |-> "no_data"])
    /\ idx2' = idx2 + 1
    /\ UNCHANGED <<pc2, results, candidates>>

\* Lines 41-50: every row is dropped as a warm-up row, data.iloc[-1] raises
\* IndexError, the except clause prints it and goes on.
ScreenNoRowLeft ==
    /\ UNCHANGED <<vars1, vars3>>
    /\ pc2 = "loop" /\ idx2 <= Len(TICKERS)
    /\ \E frame \in ScreenFrames :
          /\ frame # <<>>
          /\ SelectSeq(frame, ScreenReady) = <<>>
          /\ data' = <<>>
    /\ log2' = Append(log2, [Ticker |-> TICKERS[idx2], what |-> "error"])
    /\ idx2' = idx2 + 1
    /\ UNCHANGED <<pc2, results, candidates>>

\* Lines 41-76: the latest row is screened and its result appended.
ScreenAppend ==
    /\ UNCHANGED <<vars1, vars3>>
    /\ pc2 = "loop" /\ idx2 <= Len(TICKERS)
    /\ \E frame \in ScreenFrames :
          LET kept == SelectSeq(frame, ScreenReady)
          IN  /\ kept # <<>>
              /\ data' = kept
              /\ results' = Append(results, ScreenRow(TICKERS[idx2], LastRow(kept)))
    /\ idx2' = idx2 + 1
    /\ UNCHANGED <<pc2, log2, candidates>>

\* Lines 83-95 with at least one result: the rows that pass, sorted by RSI_14.
ScreenReport ==
    /\ UNCHANGED <<vars1, vars3>>
    /\ pc2 = "loop" /\ idx2 > Len(TICKERS)
    /\ results # <<>>
    /\ candidates' = SortByRsi(SelectSeq(results, LAMBDA r : r.PASS_SCREEN = TRUE))
    /\ pc2' = "done"
    /\ UNCHANGED <<idx2, data, results, log2>>

\* Lines 83-88 with no result: the frame built from the empty list has no
\* column, results_df["PASS_SCREEN"] raises KeyError and the script dies.
ScreenReportKeyError ==
    /\ UNCHANGED <<vars1, vars3>>
    /\ pc2 = "loop" /\ idx2 > Len(TICKERS)
    /\ results = <<>>
    /\ pc2' = "crashed"
    /\ UNCHANGED <<idx2, data, results, log2, candidates>>

Next2 ==
    \/ ScreenDownloadError
    \/ ScreenNoData
    \/ ScreenNoRowLeft
    \/ ScreenAppend
    \/ ScreenReport
    \/ ScreenReportKeyError

\* ------------------------------------------------------------- script 3
\* The head of the TICKERS list of the dashboard.
PORTFOLIO_TICKERS == <<"RELIANCE.NS", "TCS.NS">>

\* RISK_FREE_RATE, and with it daily_rf = (1 + 0) ** (1 / 252) - 1 = 0.
DailyRf == 0

\* The frames yf.download can return to the dashboard: bars on any of the
\* days 1..MaxDays, in date order, each with a close price or a missing one.
PortfolioFrames ==
    UNION { { SelectSeq([d \in 1..MaxDays |-> [Date |-> d, Close |-> c[d]]],
                        LAMBDA r : r.Date \in days) :
              c \in [1..MaxDays -> ClosePrices \cup {NaN}] } :
            days \in SUBSET (1..MaxDays) }

RECURSIVE SeqSum(_)
\* The sum of a series.
SeqSum(xs) == IF xs = <<>> THEN 0 ELSE Head(xs) + SeqSum(Tail(xs))

RECURSIVE SortedSeq(_)
\* The members of a finite set of integers in increasing order.
SortedSeq(S) ==
    IF S = {} THEN <<>>
    ELSE LET m == CHOOSE x \in S : \A y \in S : x <= y
         IN  <<m>> \o SortedSeq(S \ {m})

\* The close of `series` on day d, NaN when the series has no bar that day.
CloseOn(series, d) ==
    IF \E k \in 1..Len(series) : series[k].Date = d
    THEN series[CHOOSE k \in 1..Len(series) : series[k].Date = d].Close
    ELSE NaN

\* pd.DataFrame(prices).dropna(how="all"): one row per day on which some
\* ticker has a close, one column per ticker in insertion order.
PriceFrame(ps) ==
    LET days == SortedSeq(UNION { { ps[t].series[k].Date : k \in 1..Len(ps[t].series) } :
                                  t \in 1..Len(ps) })
    IN  [index |-> days,
         columns |-> [t \in 1..Len(ps) |->
                        [Ticker |-> ps[t].Ticker,
                         values |-> [r \in 1..Len(days) |-> CloseOn(ps[t].series, days[r])]]]]

\* ffill: every missing cell takes the last value present above it.
RECURSIVE FFill(_)
FFill(col) ==
    IF col = <<>> THEN <<>>
    ELSE LET init == FFill(SubSeq(col, 1, Len(col) - 1))
             lastv == col[Len(col)]
         IN  Append(init, IF lastv = NaN /\ init # <<>> THEN init[Len(init)] ELSE lastv)

\* One cell of pct_change, in percent.  Closes are 10 or 20, so the change is
\* a whole number of percent (0, 100 or -50) and \div is exact.
PctChange(prev, cur) ==
    IF prev = NaN \/ cur = NaN THEN NaN ELSE ((cur - prev) * 100) \div prev

\* Series.pct_change(): pandas before 3.0 forward-fills the gaps first
\* (fill_method="pad"), pandas 3.0 does not; `pad` says which.
PctChangeCol(col, pad) ==
    LET filled == IF pad THEN FFill(col) ELSE col
    IN  [k \in 1..Len(col) |-> IF k = 1 THEN NaN ELSE PctChange(filled[k-1], filled[k])]

\* Series.dropna()
DropNa(col) == SelectSeq(col, LAMBDA x : x # NaN)

\* n * (n - 1) times the sample variance: n * sum(x^2) - sum(x)^2, which is
\* zero exactly when the sample standard deviation is.
VarScaled(rets) ==
    Len(rets) * SeqSum([k \in 1..Len(rets) |-> rets[k] * rets[k]])
      - SeqSum(rets) * SeqSum(rets)

\* ret_series.std(): the sample standard deviation (ddof=1), NaN for a single
\* observation; otherwise represented by its scaled square.
DailyVol(rets) == IF Len(rets) = 1 THEN NaN ELSE VarScaled(rets)

\* A guard that always divides.
AlwaysDivide(daily_vol) == TRUE
\* daily_vol != 0 (true of NaN as well).
SharpeGuard(daily_vol) == daily_vol # 0

\* The Sharpe cell: <<>> is np.nan; otherwise the excess mean return (its
\* numerator and denominator) and the scaled squared volatility it is divided
\* by.  A division by NaN gives NaN.
Sharpe(rets) ==
    LET daily_vol == DailyVol(rets)
        excess_num == SeqSum(rets) - DailyRf * Len(rets)
    IN  IF SharpeGuard(daily_vol)
        THEN IF daily_vol = NaN THEN <<>> ELSE <<excess_num, Len(rets), daily_vol>>
        ELSE <<>>

\* The dict appended to summary_rows (lines 126-132).
SummaryRow(ticker, rets) ==
    [Ticker |-> ticker,
     AvgDailyRet |-> <<SeqSum(rets), Len(rets)>>,
     DailyVol |-> DailyVol(rets),
     Sharpe |-> Sharpe(rets)]

Init3 ==
    /\ pc3 = "download"
    /\ idx3 = 1
    /\ prices = <<>>
    /\ log3 = <<>>
    /\ returns_df = [index |-> <<>>, columns |-> <<>>]
    /\ col3 = 0
    /\ summary_rows = <<>>
    /\ divided = {}

InDownloadLoop == pc3 = "download" /\ idx3 <= Len(PORTFOLIO_TICKERS)

\* Lines 38-47: yf.download raises.
DlError ==
    /\ UNCHANGED <<vars1, vars2>>
    /\ InDownloadLoop
    /\ log3' = Append(log3, [Ticker |-> PORTFOLIO_TICKERS[idx3], what |-> "error"])
    /\ idx3' = idx3 + 1
    /\ UNCHANGED <<pc3, prices, returns_df, col3, summary_rows, divided>>

\* Lines 49-51: None or an empty frame.
DlNoData ==
    /\ UNCHANGED <<vars1, vars2>>
    /\ InDownloadLoop
    /\ log3' = Append(log3, [Ticker |-> PORTFOLIO_TICKERS[idx3], what |-> "no_data"])
    /\ idx3' = idx3 + 1
    /\ UNCHANGED <<pc3, prices, returns_df, col3, summary_rows, divided>>

\* Lines 57-59: a frame without a Close column.
DlNoCloseColumn ==
    /\ UNCHANGED <<vars1, vars2>>
    /\ InDownloadLoop
    /\ log3' = Append(log3, [Ticker |-> PORTFOLIO_TICKERS[idx3], what |-> "no_close"])
    /\ idx3' = idx3 + 1
    /\ UNCHANGED <<pc3, prices, returns_df, col3, summary_rows, divided>>

\* Lines 61-65: every close of the frame is missing.
DlCloseEmpty ==
    /\ UNCHANGED <<vars1, vars2>>
    /\ InDownloadLoop
    /\ \E frame \in PortfolioFrames : frame # <<>> /\ DropNaClose(frame) = <<>>
    /\ log3' = Append(log3, [Ticker |-> PORTFOLIO_TICKERS[idx3], what |-> "close_empty"])
    /\ idx3' = idx3 + 1
    /\ UNCHANGED <<pc3, prices, returns_df, col3, summary_rows, divided>>

\* Lines 61-68: the closes present are stored under the ticker.
DlStore ==
    /\ UNCHANGED <<vars1, vars2>>
    /\ InDownloadLoop
    /\ \E frame \in PortfolioFrames :
          /\ DropNaClose(frame) # <<>>
          /\ prices' = Append(prices, [Ticker |-> PORTFOLIO_TICKERS[idx3],
                                       series |-> DropNaClose(frame)])
    /\ idx3' = idx3 + 1
    /\ UNCHANGED <<pc3, log3, returns_df, col3, summary_rows, divided>>

\* Lines 74-80: nothing was downloaded for any ticker, SystemExit.
NoPricesExit ==
    /\ UNCHANGED <<vars1, vars2>>
    /\ pc3 = "download" /\ idx3 > Len(PORTFOLIO_TICKERS)
    /\ prices = <<>>
    /\ pc3' = "aborted"
    /\ UNCHANGED <<idx3, prices, log3, returns_df, col3, summary_rows, divided>>

\* Lines 85-105: the price frame and its daily returns.
BuildReturns ==
    /\ UNCHANGED <<vars1, vars2>>
    /\ pc3 = "download" /\ idx3 > Len(PORTFOLIO_TICKERS)
    /\ prices # <<>>
    /\ \E pad \in BOOLEAN :
          LET price_df == PriceFrame(prices)
          IN  returns_df' =
                [index |-> price_df.index,
                 columns |-> [t \in 1..Len(price_df.columns) |->
                                [Ticker |-> price_df.columns[t].Ticker,
                                 values |-> PctChangeCol(price_df.columns[t].values, pad)]]]
    /\ summary_rows' = <<>>
    /\ col3' = 1
    /\ pc3' = "metrics"
    /\ UNCHANGED <<idx3, prices, log3, divided>>

InMetricsLoop == pc3 = "metrics" /\ col3 <= Len(returns_df.columns)

\* Lines 108-112: the column has no return, the ticker is skipped.
MetricsSkip ==
    /\ UNCHANGED <<vars1, vars2>>
    /\ InMetricsLoop
    /\ DropNa(returns_df.columns[col3].values) = <<>>
    /\ log3' = Append(log3, [Ticker |-> returns_df.columns[col3].Ticker,
                             what |-> "no_returns"])
    /\ col3' = col3 + 1
    /\ UNCHANGED <<pc3, idx3, prices, returns_df, summary_rows, divided>>

\* Lines 114-132: the metrics of the column, appended as a summary row.
MetricsRow ==
    /\ UNCHANGED <<vars1, vars2>>
    /\ InMetricsLoop
    /\ LET ret_series == DropNa(returns_df.columns[col3].values)
           ticker == returns_df.columns[col3].Ticker
       IN  /\ ret_series # <<>>
           /\ divided' = IF SharpeGuard(DailyVol(ret_series))
                         THEN divided \cup {ticker} ELSE divided
           /\ summary_rows' = Append(summary_rows, SummaryRow(ticker, ret_series))
    /\ col3' = col3 + 1
    /\ UNCHANGED <<pc3, idx3, prices, log3, returns_df>>

\* Lines 134-188: the summary is printed, plotted and saved.
PortfolioReport ==
    /\ UNCHANGED <<vars1, vars2>>
    /\ pc3 = "metrics" /\ col3 > Len(returns_df.columns)
    /\ pc3' = "done"
    /\ UNCHANGED <<idx3, prices, log3, returns_df, col3, summary_rows, divided>>

Next3 ==
    \/ DlError
    \/ DlNoData
    \/ DlNoCloseColumn
    \/ DlCloseEmpty
    \/ DlStore
    \/ NoPricesExit
    \/ BuildReturns
    \/ MetricsSkip
    \/ MetricsRow
    \/ PortfolioReport

\* ------------------------------------------------------- specifications
Init == Init1 /\ Init2 /\ Init3

SpecStrategy == Init /\ [][Next1]_vars
SpecScreener == Init /\ [][Next2]_vars
SpecPortfolio == Init /\ [][Next3]_vars

\* ------------------------------------------------- properties of script 1
\* The signal columns exist and the tracker has started.
Tracked == pc \in {"loop", "forced", "report", "done"}
\* The trade list is final.
Final == pc \in {"report", "done"}
\* Number of bars the loop has processed.
Processed == IF pc = "loop" THEN i - 1 ELSE Len(stock)
\* The bars at which BUYSIGNAL changes from false (previous bar) to true.
RisingBars == {k \in 2..Len(stock) : (~stock[k-1].BUYSIGNAL) /\ stock[k].BUYSIGNAL}
\* The position in the frame of the bar dated d.
RowOf(d) == CHOOSE k \in 1..Len(stock) : stock[k].Date = d
\* The trades of the final list that exit on the last bar at its close.
TradesAtLastBar ==
    {k \in 1..Len(trades_list) :
        /\ trades_list[k].ExitDate = stock[Len(stock)].Date
        /\ trades_list[k].ExitPrice = stock[Len(stock)].Close}

\* C1 as stated: every trade of the final list has EntryDate < ExitDate.
C1_EntryStrictlyBeforeExit ==
    Final => \A k \in 1..Len(trades_list) :
                trades_list[k].EntryDate < trades_list[k].ExitDate

\* C1 amended: every trade of the final list has EntryDate <= ExitDate; a trade
\* closed by an exit flag has EntryDate < ExitDate; the two dates are equal
\* exactly for the forced exit of a trade entered on the last bar.
C1_EntryNotAfterExit ==
    Final => \A k \in 1..Len(trades_list) :
                LET t == trades_list[k]
                    forced == in_trade /\ k = Len(trades_list)
                IN  /\ t.EntryDate <= t.ExitDate
                    /\ (~forced) => t.EntryDate < t.ExitDate
                    /\ (t.EntryDate = t.ExitDate) <=>
                          (forced /\ stock[Len(stock)].ENTRY)

\* A trade closed by an exit flag followed by a trade entered on the last bar.
C1_Witness ==
    /\ pc = "done"
    /\ Len(trades_list) = 2
    /\ trades_list[1].EntryDate < trades_list[1].ExitDate
    /\ trades_list[2].EntryDate = trades_list[2].ExitDate

\* C2 as stated: whenever the last bar has BUYSIGNAL, exactly one trade exits
\* on the last bar's date at the last bar's close.
C2_ForcedExitWheneverLastBuy ==
    (Final /\ stock[Len(stock)].BUYSIGNAL) => Cardinality(TradesAtLastBar) = 1

\* C2 amended: when the last bar has BUYSIGNAL and some earlier bar has not,
\* exactly one trade exits on the last bar's date at the last bar's close, and
\* it is the last of the list; when every bar has BUYSIGNAL no trade is emitted.
C2_ForcedExitAfterFalseBar ==
    (Final /\ stock[Len(stock)].BUYSIGNAL) =>
        IF \E j \in 1..(Len(stock) - 1) : ~stock[j].BUYSIGNAL
        THEN /\ TradesAtLastBar = {Len(trades_list)}
             /\ {k \in 1..Len(trades_list) :
                    trades_list[k].ExitDate = stock[Len(stock)].Date} = {Len(trades_list)}
        ELSE trades_list = <<>>

\* A forced exit at a last close that differs from the first close.
C2_Witness ==
    /\ pc = "done"
    /\ stock[Len(stock)].BUYSIGNAL
    /\ Len(trades_list) >= 1
    /\ trades_list[Len(trades_list)].ExitPrice = stock[Len(stock)].Close
    /\ stock[Len(stock)].Close # stock[1].Close

\* C3: the final list has as many trades as the tracker opened, which is the
\* number of bars where BUYSIGNAL rises; while scanning, the trades opened are
\* the trades emitted plus the one still open.
C3_TradeCount ==
    /\ Tracked => opened = Len(trades_list) +
                    (IF in_trade /\ pc \in {"loop", "forced"} THEN 1 ELSE 0)
    /\ Final => /\ Len(trades_list) = opened
                /\ opened = Cardinality(RisingBars)

\* Two trades: one closed by an exit flag, one by the forced exit.
C3_Witness ==
    /\ pc = "done"
    /\ Len(trades_list) = 2
    /\ in_trade

\* C4: one stored entry exactly while in a trade; consecutive trades of the
\* list do not overlap (exit strictly before the next entry), so the list is
\* ordered by EntryDate; every trade but the last was closed by an exit flag.
C4_OneOpenTradeNoOverlap ==
    Tracked =>
        /\ in_trade <=> (entry_date # None)
        /\ in_trade <=> (entry_price # None)
        /\ pc \in {"loop", "forced"} => opened - Len(trades_list) = (IF in_trade THEN 1 ELSE 0)
        /\ \A k \in 1..(Len(trades_list) - 1) :
              /\ trades_list[k].ExitDate < trades_list[k+1].EntryDate
              /\ trades_list[k].EntryDate < trades_list[k+1].EntryDate
              /\ stock[RowOf(trades_list[k].ExitDate)].EXIT
        /\ \A k \in 1..Len(trades_list) :
              (~stock[RowOf(trades_list[k].ExitDate)].EXIT) =>
                  (Final /\ in_trade /\ k = Len(trades_list))

\* Two trades, the first closed by an exit flag before the second, a forced
\* exit, was entered.
C4_Witness ==
    /\ pc = "done"
    /\ Len(trades_list) = 2
    /\ in_trade
    /\ trades_list[1].EntryDate < trades_list[1].ExitDate
    /\ trades_list[1].ExitDate < trades_list[2].EntryDate

\* C6: when BUYSIGNAL is true on no bar the tracker is flat after every bar,
\* no trade is opened or emitted, and the report is the "no trades" branch
\* with no statistics computed.
C6_NeverTrueNoTrades ==
    (Tracked /\ \A k \in 1..Len(stock) : ~stock[k].BUYSIGNAL) =>
        /\ ~in_trade
        /\ opened = 0
        /\ trades_list = <<>>
        /\ pc = "done" => report = [branch |-> "no_trades", stats |-> <<>>]
        /\ pc # "done" => report = NoReport

\* A finished run over several bars none of which has BUYSIGNAL.
C6_Witness ==
    /\ pc = "done"
    /\ Len(stock) >= 3
    /\ \A k \in 1..Len(stock) : ~stock[k].BUYSIGNAL
    /\ report.branch = "no_trades"

\* C8: a run whose loader returned no bars, or whose rows are all dropped as
\* warm-up rows, is aborted; an aborted run has computed no signal, run no
\* tracker step and produced no trade list or statistics; a run that goes on
\* has at least one row, and every row has its three indicators.
C8_AbortBeforeSignals ==
    /\ (pc # "download" /\ raw = <<>>) => pc = "aborted"
    /\ (pc \notin {"download", "indicators"} /\ stock = <<>>) => pc = "aborted"
    /\ pc \in {"signals", "loop", "forced", "report", "done"} =>
          /\ stock # <<>>
          /\ \A k \in 1..Len(stock) : IndicatorsReady(stock[k])
    /\ pc = "aborted" =>
          /\ stock = <<>>
          /\ i = 0 /\ opened = 0 /\ ~in_trade
          /\ trades_list = <<>>
          /\ report = NoReport

\* An abort after the warm-up rows are dropped: the loader returned complete bars.
C8_Witness ==
    /\ pc = "aborted"
    /\ Len(DropNaClose(raw)) >= 2

\* C10: after a bar is processed, in_trade holds exactly when that bar has
\* BUYSIGNAL and some earlier bar has not; so an entry flag never meets an
\* open trade, and an exit flag meets a flat tracker only before the first
\* entry, in a series that has had BUYSIGNAL on every bar so far.
C10_InTradeIffSignalAfterFalse ==
    Tracked =>
        /\ Processed >= 1 =>
              (in_trade <=> (/\ stock[Processed].BUYSIGNAL
                             /\ \E j \in 1..(Processed - 1) : ~stock[j].BUYSIGNAL))
        /\ Processed = 0 => ~in_trade
        /\ (pc = "loop" /\ i <= Len(stock) /\ in_trade) => ~stock[i].ENTRY
        /\ (pc = "loop" /\ i <= Len(stock) /\ (~in_trade) /\ stock[i].EXIT) =>
              /\ opened = 0
              /\ \A j \in 1..(i - 1) : stock[j].BUYSIGNAL
        /\ (\A j \in 1..Processed : stock[j].BUYSIGNAL) => opened = 0

\* An exit flag seen while flat: the series started with BUYSIGNAL.
C10_Witness ==
    /\ pc = "loop"
    /\ i <= Len(stock)
    /\ ~in_trade
    /\ stock[i].EXIT

\* ------------------------------------------------- properties of script 2
\* The tickers for which a skip message was printed.
Skipped2 == {log2[k].Ticker : k \in 1..Len(log2)}

\* C5 as stated, for the screener: no combination of per-symbol failures is
\* fatal, the run reaches the report, and the results hold one row for each
\* symbol that succeeded, in ticker order, and none for a symbol that failed.
C5_FailuresNeverFatal ==
    /\ pc2 # "crashed"
    /\ (pc2 = "loop" /\ idx2 > Len(TICKERS)) \/ pc2 = "done" =>
          [k \in 1..Len(results) |-> results[k].Ticker]
             = SelectSeq(TICKERS, LAMBDA t : t \notin Skipped2)

\* C7: every result row carries uptrend = (ema20 > ema50), priceAboveEma20 =
\* (close > ema20), rsiInBand = (50 < rsi < 70) and passesScreen = all three;
\* 105/100/95/60 passes, 105/100/95/75 is out of the band and fails, an RSI of
\* 50 or 70 fails; and the row screened is the latest row of the frame.
C7_ScreenRule ==
    /\ \A k \in 1..Len(results) :
          LET r == results[k]
          IN  /\ r.Uptrend <=> (r.EMA_20 > r.EMA_50)
              /\ r.PriceAboveEma20 <=> (r.Close > r.EMA_20)
              /\ r.RsiBetween <=> (50 < r.RSI_14 /\ r.RSI_14 < 70)
              /\ r.PASS_SCREEN <=> (r.Uptrend /\ r.PriceAboveEma20 /\ r.RsiBetween)
              /\ (r.Close = 105 /\ r.EMA_20 = 100 /\ r.EMA_50 = 95 /\ r.RSI_14 = 60) =>
                    (r.Uptrend /\ r.PriceAboveEma20 /\ r.RsiBetween /\ r.PASS_SCREEN)
              /\ (r.Close = 105 /\ r.EMA_20 = 100 /\ r.EMA_50 = 95 /\ r.RSI_14 = 75) =>
                    ((~r.RsiBetween) /\ ~r.PASS_SCREEN)
              /\ r.RSI_14 \in {50, 70} => ~r.PASS_SCREEN
    /\ data # <<>> =>
          /\ results # <<>>
          /\ LET r == results[Len(results)]
                 last == data[Len(data)]
             IN  /\ r.Close = last.Close /\ r.EMA_20 = last.EMA_20
                 /\ r.EMA_50 = last.EMA_50 /\ r.RSI_14 = last.RSI_14

\* The two literal rows and a row on the upper bound of the band, the last of
\* them screened from a frame whose older row passes.
C7_Witness ==
    /\ Len(results) = 3
    /\ \E k \in 1..3 : /\ results[k].Close = 105 /\ results[k].EMA_50 = 95
                       /\ results[k].RSI_14 = 60 /\ results[k].PASS_SCREEN
    /\ \E k \in 1..3 : /\ results[k].Close = 105 /\ results[k].EMA_50 = 95
                       /\ results[k].RSI_14 = 75 /\ ~results[k].PASS_SCREEN
    /\ results[3].RSI_14 = 70 /\ results[3].Close = 105 /\ results[3].EMA_50 = 95
    /\ Len(data) = 2 /\ data[1].RSI_14 = 60 /\ data[1].EMA_50 = 95

\* ------------------------------------------------- properties of script 3
\* The columns of returns_df the metrics loop has gone through.
ProcessedColumns ==
    IF pc3 = "metrics" THEN 1..(col3 - 1)
    ELSE IF pc3 = "done" THEN 1..Len(returns_df.columns)
    ELSE {}
\* The summary rows of a ticker.
RowsOf(t) == {k \in 1..Len(summary_rows) : summary_rows[k].Ticker = t}
\* At least two returns, all equal: the standard deviation is zero.
AllEqual(rets) == Len(rets) >= 2 /\ \A a, b \in 1..Len(rets) : rets[a] = rets[b]

=============================================================================
